---- MODULE Spec2Model ----
(***************************************************************************)
(* Model of pori's input wrappers (src/src/lib.rs): Located, Stateful and  *)
(* the helpers bof and span.                                               *)
(*                                                                         *)
(* A raw span (&[u8] / ASCII &str) is a window [ptr, len] into the buffer   *)
(* `input`; nom's Offset on raw spans is pointer subtraction, so            *)
(* Located::to_data_offset is modelled as the code computes it.            *)
(* Indices handed to take / take_from / take_split stay within             *)
(* 0..input_len (beyond it the raw span's slicing panics).                 *)
(***************************************************************************)
EXTENDS Integers, Sequences, FiniteSets, TLC

VARIABLES input, root, cur, recv, op, result, derived

vars == <<input, root, cur, recv, op, result, derived>>

\* ---- bounds ------------------------------------------------------------
MaxLen == 3

Elem == {"a", "1"}
Inputs == UNION {[1..n -> Elem] : n \in 0..MaxLen}
States == {"s1", "s2"}
IsDigit == {"1"}
IsAlpha == {"a"}
Preds == {IsDigit, IsAlpha}
Kinds == {"Digit", "Alpha"}

\* ---- raw spans: nom's Input / Offset for &[u8] --------------------------
Raw(ptr, len) == [ptr |-> ptr, len |-> len]

Raw_input_len(d) == d.len

Raw_take(d, count) == Raw(d.ptr, count)

\* nom returns (suffix, prefix)
Raw_take_split(d, index) == <<Raw(d.ptr + index, d.len - index), Raw(d.ptr, index)>>

Raw_offset(first, second) == second.ptr - first.ptr

RECURSIVE Raw_scan(_, _, _)
Raw_scan(d, i, pred) ==
    IF i >= d.len THEN -1
    ELSE IF input[d.ptr + i + 1] \in pred THEN i
    ELSE Raw_scan(d, i + 1, pred)

\* Option<usize>: -1 stands for None
Raw_position(d, pred) == Raw_scan(d, 0, pred)

\* ---- IResult ------------------------------------------------------------
Ok(remaining, output) == [tag |-> "Ok", remaining |-> remaining, output |-> output]
Incomplete(n) == [tag |-> "Incomplete", needed |-> n]
NomError(inp, code) == [input |-> inp, code |-> code]
Error(e) == [tag |-> "Error", input |-> e.input, code |-> e.code]
Failure(e) == [tag |-> "Failure", input |-> e.input, code |-> e.code]
OkPair(pair) == Ok(pair[1], pair[2])

\* ---- trait dispatch -----------------------------------------------------
RECURSIVE Input_input_len(_), Input_take(_, _), Input_take_from(_, _), Input_take_split(_, _)
RECURSIVE Input_split_at_position(_, _), Input_split_at_position1(_, _, _)
RECURSIVE Input_split_at_position_complete(_, _), Input_split_at_position1_complete(_, _, _)
RECURSIVE Location_location(_)

\* ---- Located ------------------------------------------------------------
Located_from(data) == [kind |-> "Located", data |-> data, location |-> 0]

\* mutant: the location is carried over without adding the offset
Located_to_data_offset_stale(self, data) ==
    [kind |-> "Located", data |-> data, location |-> self.location]

Located_to_data_offset(self, data) ==
    LET offset == Raw_offset(self.data, data)
    IN  [kind |-> "Located", data |-> data, location |-> self.location + offset]

Located_input_len(self) == Raw_input_len(self.data)

Located_take(self, count) ==
    LET taken == Raw_take(self.data, count)
    IN  Located_to_data_offset(self, taken)

Located_take_from(self, index) ==
    LET taken == Raw_take(self.data, index)
    IN  Located_to_data_offset(self, taken)

\* mutant: the pair is handed back consumed-first
Located_take_split_swapped(self, index) ==
    LET pair == Raw_take_split(self.data, index)
    IN  <<Located_to_data_offset(self, pair[2]), Located_to_data_offset(self, pair[1])>>

Located_take_split(self, index) ==
    LET pair == Raw_take_split(self.data, index)
    IN  <<Located_to_data_offset(self, pair[1]), Located_to_data_offset(self, pair[2])>>

Located_split_at_position(self, pred) ==
    LET n == Raw_position(self.data, pred)
    IN  IF n >= 0 THEN OkPair(Located_take_split(self, n))
        ELSE Incomplete(1)

\* mutant: the Some(0) arm is missing
Located_split_at_position1_no_zero(self, pred, kind) ==
    LET n == Raw_position(self.data, pred)
    IN  IF n >= 0 THEN OkPair(Located_take_split(self, n))
        ELSE Incomplete(1)

Located_split_at_position1(self, pred, kind) ==
    LET n == Raw_position(self.data, pred)
    IN  IF n = 0 THEN Error(NomError(self, kind))
        ELSE IF n > 0 THEN OkPair(Located_take_split(self, n))
        ELSE Incomplete(1)

Located_split_at_position_complete(self, pred) ==
    LET r == Located_split_at_position(self, pred)
    IN  IF r.tag = "Incomplete"
        THEN OkPair(Located_take_split(self, Located_input_len(self)))
        ELSE r

\* mutant: the empty-input check is missing
Located_split_at_position1_complete_no_empty(self, pred, kind) ==
    LET n == Raw_position(self.data, pred)
    IN  IF n = 0 THEN Error(NomError(self, kind))
        ELSE IF n > 0 THEN OkPair(Located_take_split(self, n))
        ELSE OkPair(Located_take_split(self, Located_input_len(self)))

Located_split_at_position1_complete(self, pred, kind) ==
    LET n == Raw_position(self.data, pred)
    IN  IF n = 0 THEN Error(NomError(self, kind))
        ELSE IF n > 0 THEN OkPair(Located_take_split(self, n))
        ELSE IF Raw_input_len(self.data) = 0 THEN Error(NomError(self, kind))
        ELSE OkPair(Located_take_split(self, Located_input_len(self)))

Located_location(self) == self.location

\* ---- Stateful -----------------------------------------------------------
Stateful_new(data, state) == [kind |-> "Stateful", data |-> data, state |-> state]

\* `mapped` is f(&self.data), the closure applied to the inner input
clone_map(self, mapped) == [kind |-> "Stateful", data |-> mapped, state |-> self.state]

map_error(self, error) ==
    NomError([kind |-> "Stateful", data |-> error.input, state |-> self.state], error.code)

\* mutant: a Failure is surfaced as an Error
clone_map_iresult_demote(self, r) ==
    CASE r.tag = "Ok" ->
            Ok([kind |-> "Stateful", data |-> r.remaining, state |-> self.state],
               [kind |-> "Stateful", data |-> r.output, state |-> self.state])
      [] r.tag \in {"Error", "Failure"} -> Error(map_error(self, NomError(r.input, r.code)))
      [] r.tag = "Incomplete" -> Incomplete(r.needed)

\* `r` is f(&self.data), the outcome of the closure on the inner input
clone_map_iresult(self, r) ==
    CASE r.tag = "Ok" ->
            Ok([kind |-> "Stateful", data |-> r.remaining, state |-> self.state],
               [kind |-> "Stateful", data |-> r.output, state |-> self.state])
      [] r.tag = "Error" -> Error(map_error(self, NomError(r.input, r.code)))
      [] r.tag = "Failure" -> Failure(map_error(self, NomError(r.input, r.code)))
      [] r.tag = "Incomplete" -> Incomplete(r.needed)

Stateful_input_len(self) == Input_input_len(self.data)

Stateful_take(self, count) == clone_map(self, Input_take(self.data, count))

Stateful_take_from(self, index) == clone_map(self, Input_take_from(self.data, index))

\* mutant: the consumed half gets a default state instead of a clone
Stateful_take_split_default(self, index) ==
    LET pair == Input_take_split(self.data, index)
    IN  <<[kind |-> "Stateful", data |-> pair[1], state |-> self.state],
          [kind |-> "Stateful", data |-> pair[2], state |-> "s1"]>>

Stateful_take_split(self, index) ==
    LET pair == Input_take_split(self.data, index)
    IN  <<[kind |-> "Stateful", data |-> pair[1], state |-> self.state],
          [kind |-> "Stateful", data |-> pair[2], state |-> self.state]>>

Stateful_split_at_position(self, pred) ==
    clone_map_iresult(self, Input_split_at_position(self.data, pred))

Stateful_split_at_position1(self, pred, kind) ==
    clone_map_iresult(self, Input_split_at_position1(self.data, pred, kind))

Stateful_split_at_position_complete(self, pred) ==
    clone_map_iresult(self, Input_split_at_position_complete(self.data, pred))

Stateful_split_at_position1_complete(self, pred, kind) ==
    clone_map_iresult(self, Input_split_at_position1_complete(self.data, pred, kind))

Stateful_location(self) == Location_location(self.data)

\* ---- the Input and Location impl selected by the value's type ------------
Input_input_len(v) ==
    IF v.kind = "Located" THEN Located_input_len(v) ELSE Stateful_input_len(v)

Input_take(v, count) ==
    IF v.kind = "Located" THEN Located_take(v, count) ELSE Stateful_take(v, count)

Input_take_from(v, index) ==
    IF v.kind = "Located" THEN Located_take_from(v, index) ELSE Stateful_take_from(v, index)

Input_take_split(v, index) ==
    IF v.kind = "Located" THEN Located_take_split(v, index) ELSE Stateful_take_split(v, index)

Input_split_at_position(v, pred) ==
    IF v.kind = "Located" THEN Located_split_at_position(v, pred)
    ELSE Stateful_split_at_position(v, pred)

Input_split_at_position1(v, pred, kind) ==
    IF v.kind = "Located" THEN Located_split_at_position1(v, pred, kind)
    ELSE Stateful_split_at_position1(v, pred, kind)

Input_split_at_position_complete(v, pred) ==
    IF v.kind = "Located" THEN Located_split_at_position_complete(v, pred)
    ELSE Stateful_split_at_position_complete(v, pred)

Input_split_at_position1_complete(v, pred, kind) ==
    IF v.kind = "Located" THEN Located_split_at_position1_complete(v, pred, kind)
    ELSE Stateful_split_at_position1_complete(v, pred, kind)

Location_location(v) ==
    IF v.kind = "Located" THEN Located_location(v) ELSE Stateful_location(v)

\* ---- bof and span --------------------------------------------------------
\* mutant: a position past the beginning is reported as a Failure
bof_failure(inp) ==
    IF Location_location(inp) = 0 THEN Ok(inp, inp)
    ELSE Failure(NomError(inp, "Eof"))

bof(inp) ==
    IF Location_location(inp) = 0 THEN Ok(inp, inp)
    ELSE Error(NomError(inp, "Eof"))

\* sub-parsers handed to span: nom's take(k) and a take_while1-style parser
SubParser(o, inp) ==
    IF o.sub = "take" THEN OkPair(Input_take_split(inp, o.index))
    ELSE Input_split_at_position1(inp, o.pred, o.kind)

\* mutant: the end location is reported instead of the length
saturating_sub_end(a, b) == a

saturating_sub(a, b) == IF a >= b THEN a - b ELSE 0

span(parser, inp) ==
    LET start == Location_location(inp)
        r == SubParser(parser, inp)
    IN  IF r.tag = "Ok"
        THEN LET end == Location_location(r.remaining)
             IN  Ok(r.remaining, <<<<start, saturating_sub(end, start)>>, r.output>>)
        ELSE r

\* outcome of the closure handed to clone_map_iresult, for an inner input type
\* whose split_at_position* may end in any of the four kinds
InnerResult(o, data) ==
    CASE o.sub = "Ok" -> OkPair(Input_take_split(data, o.index))
      [] o.sub = "Incomplete" -> Incomplete(o.index + 1)
      [] o.sub = "Error" -> Error(NomError(data, o.kind))
      [] o.sub = "Failure" -> Failure(NomError(data, o.kind))

\* ---- state machine -------------------------------------------------------
Wraps(data) ==
    {Located_from(data)}
    \cup {Stateful_new(Located_from(data), t) : t \in States}
    \cup {Stateful_new(Stateful_new(Located_from(data), u), t) : t \in States, u \in {"s1"}}

Op(name, index, pred, kind, follow, sub) ==
    [name |-> name, index |-> index, pred |-> pred, kind |-> kind,
     follow |-> follow, sub |-> sub]

NoResult == [tag |-> "None"]

Init ==
    /\ input \in Inputs
    /\ root \in Wraps(Raw(0, Len(input)))
    /\ cur = root
    /\ recv = root
    /\ op = Op("from", 0, {}, "None", "none", "none")
    /\ result = NoResult
    /\ derived = "fresh"

Follows == {"remaining", "output"}

Followed(r, follow) ==
    IF r.tag = "Ok" THEN (IF follow = "remaining" THEN r.remaining ELSE r.output)
    ELSE cur

NonzeroStart(index) ==
    IF index > 0 /\ derived \in {"fresh", "nonzero"} THEN "nonzero" ELSE "other"

Take ==
    \E count \in 0..Input_input_len(cur) :
        LET r == Input_take(cur, count)
        IN  /\ op' = Op("take", count, {}, "None", "none", "none")
            /\ recv' = cur
            /\ result' = [tag |-> "Span", value |-> r]
            /\ cur' = r
            /\ derived' = "other"
            /\ UNCHANGED <<input, root>>

TakeFrom ==
    \E index \in 0..Input_input_len(cur) :
        LET r == Input_take_from(cur, index)
        IN  /\ op' = Op("take_from", index, {}, "None", "none", "none")
            /\ recv' = cur
            /\ result' = [tag |-> "Span", value |-> r]
            /\ cur' = r
            /\ derived' = NonzeroStart(index)
            /\ UNCHANGED <<input, root>>

TakeSplit ==
    \E index \in 0..Input_input_len(cur), follow \in Follows :
        LET r == OkPair(Input_take_split(cur, index))
        IN  /\ op' = Op("take_split", index, {}, "None", follow, "none")
            /\ recv' = cur
            /\ result' = r
            /\ cur' = Followed(r, follow)
            /\ derived' = IF follow = "remaining" THEN NonzeroStart(index) ELSE "other"
            /\ UNCHANGED <<input, root>>

SplitStep(name, pred, kind, follow, r) ==
    /\ op' = Op(name, 0, pred, kind, follow, "none")
    /\ recv' = cur
    /\ result' = r
    /\ cur' = Followed(r, follow)
    /\ derived' = IF r.tag = "Ok" THEN "other" ELSE derived
    /\ UNCHANGED <<input, root>>

SplitAtPosition ==
    \E pred \in Preds, follow \in Follows :
        SplitStep("split_at_position", pred, "None", follow,
                  Input_split_at_position(cur, pred))

SplitAtPosition1 ==
    \E pred \in Preds, kind \in Kinds, follow \in Follows :
        SplitStep("split_at_position1", pred, kind, follow,
                  Input_split_at_position1(cur, pred, kind))

SplitAtPositionComplete ==
    \E pred \in Preds, follow \in Follows :
        SplitStep("split_at_position_complete", pred, "None", follow,
                  Input_split_at_position_complete(cur, pred))

SplitAtPosition1Complete ==
    \E pred \in Preds, kind \in Kinds, follow \in Follows :
        SplitStep("split_at_position1_complete", pred, kind, follow,
                  Input_split_at_position1_complete(cur, pred, kind))

Bof ==
    /\ op' = Op("bof", 0, {}, "None", "none", "none")
    /\ recv' = cur
    /\ result' = bof(cur)
    /\ UNCHANGED <<input, root, cur, derived>>

SpanStep(o) ==
    /\ op' = o
    /\ recv' = cur
    /\ result' = span(o, cur)
    /\ UNCHANGED <<input, root, cur, derived>>

Span ==
    \/ \E index \in 0..Input_input_len(cur) :
            SpanStep(Op("span", index, {}, "None", "none", "take"))
    \/ \E pred \in Preds, kind \in Kinds :
            SpanStep(Op("span", 0, pred, kind, "none", "split1"))

RelayStep(o) ==
    /\ op' = o
    /\ recv' = cur
    /\ result' = clone_map_iresult(cur, InnerResult(o, cur.data))
    /\ UNCHANGED <<input, root, cur, derived>>

CloneMapIResult ==
    /\ cur.kind = "Stateful"
    /\ \/ \E index \in 0..Input_input_len(cur) :
              RelayStep(Op("clone_map_iresult", index, {}, "None", "none", "Ok"))
       \/ \E index \in 0..1 :
              RelayStep(Op("clone_map_iresult", index, {}, "None", "none", "Incomplete"))
       \/ \E sub \in {"Error", "Failure"}, kind \in Kinds :
              RelayStep(Op("clone_map_iresult", 0, {}, kind, "none", sub))

Next ==
    \/ Take
    \/ TakeFrom
    \/ TakeSplit
    \/ SplitAtPosition
    \/ SplitAtPosition1
    \/ SplitAtPositionComplete
    \/ SplitAtPosition1Complete
    \/ Bof
    \/ Span
    \/ CloneMapIResult

Spec == Init /\ [][Next]_vars

\* ---- vocabulary of the properties ----------------------------------------
\* the elements a raw span views
Content(d) == SubSeq(input, d.ptr + 1, d.ptr + d.len)

\* the Located at the bottom of a wrapper stack
RECURSIVE Base(_)
Base(v) == IF v.kind = "Located" THEN v ELSE Base(v.data)

\* the states carried by a wrapper stack, outermost first
RECURSIVE StateLayers(_)
StateLayers(v) == IF v.kind = "Located" THEN <<>> ELSE <<v.state>> \o StateLayers(v.data)

\* least index whose element satisfies pred, -1 when there is none
FirstMatch(s, pred) ==
    IF \E i \in 1..Len(s) : s[i] \in pred
    THEN (CHOOSE i \in 1..Len(s) : s[i] \in pred /\ \A j \in 1..(i - 1) : s[j] \notin pred) - 1
    ELSE -1

Prefix(s, n) == SubSeq(s, 1, n)
Suffix(s, n) == SubSeq(s, n + 1, Len(s))

SplitOps == {"split_at_position", "split_at_position1",
             "split_at_position_complete", "split_at_position1_complete"}

\* the spans an operation handed back
ResultSpans ==
    CASE result.tag = "Span" -> {result.value}
      [] result.tag = "Ok" /\ op.name = "span" -> {result.remaining}
      [] result.tag = "Ok" -> {result.remaining, result.output}
      [] result.tag \in {"Error", "Failure"} -> {result.input}
      [] OTHER -> {}

\* C1: take_split(i) on a Located returns (right, left), remainder first: left's
\* content followed by right's content is the receiver's content, left holds
\* the first i elements at the receiver's location, right is at location + i.
SplitComplementarity ==
    (op.name = "take_split" /\ recv.kind = "Located") =>
        LET right == result.remaining
            left == result.output
        IN  /\ Content(left.data) \o Content(right.data) = Content(recv.data)
            /\ Content(left.data) = Prefix(Content(recv.data), op.index)
            /\ Content(right.data) = Suffix(Content(recv.data), op.index)
            /\ left.location = recv.location
            /\ right.location = recv.location + op.index

SplitComplementarityWitness ==
    /\ op.name = "take_split" /\ recv.kind = "Located"
    /\ recv.location > 0
    /\ op.index > 0 /\ op.index < recv.data.len
    /\ Content(result.output.data) # Content(result.remaining.data)

\* C2: every span reached from a Located created at location 0 views exactly the
\* original input's elements location .. location + input_len, and a span handed
\* back by an operation lies at (its location - the receiver's location) within
\* the receiver.
OffsetCorrectness ==
    root.kind = "Located" =>
        /\ \A s \in {cur, recv} \cup ResultSpans :
              /\ s.location = s.data.ptr
              /\ s.location + s.data.len <= Len(input)
              /\ Content(s.data) = SubSeq(input, s.location + 1, s.location + s.data.len)
        /\ \A s \in ResultSpans :
              /\ s.location >= recv.location
              /\ s.location - recv.location = s.data.ptr - recv.data.ptr
              /\ Content(s.data) =
                    SubSeq(Content(recv.data), s.location - recv.location + 1,
                           s.location - recv.location + s.data.len)

OffsetCorrectnessWitness ==
    /\ root.kind = "Located"
    /\ op.name \in {"take", "take_from", "take_split"}
    /\ recv # root
    /\ recv.location > 0
    /\ cur.location > recv.location
    /\ cur.data.len > 0

\* C3: take_from(index) on a Located returns the span that begins at index:
\* the receiver's content from index to the end, at location + index.
TakeFromBeginsAtIndex ==
    (op.name = "take_from" /\ recv.kind = "Located") =>
        /\ Content(result.value.data) = Suffix(Content(recv.data), op.index)
        /\ result.value.data.len = recv.data.len - op.index
        /\ result.value.location = recv.location + op.index

\* C4: every span derived from a Stateful carries the state it was created
\* with, in both halves of every split, and so does the receiver afterwards.
StateInvariance ==
    root.kind = "Stateful" =>
        /\ StateLayers(cur) = StateLayers(root)
        /\ StateLayers(recv) = StateLayers(root)
        /\ cur.state = root.state
        /\ \A s \in ResultSpans : StateLayers(s) = StateLayers(root) /\ s.state = root.state

StateInvarianceWitness ==
    /\ root.kind = "Stateful" /\ root.state = "s2"
    /\ op.name \in SplitOps \cup {"take_split"}
    /\ result.tag = "Ok"
    /\ recv # root
    /\ Base(result.remaining).data.len > 0
    /\ Base(result.output).data.len > 0

\* C5: span(sub_parser) on a Located or a stack of Stateful over it, at location
\* L: when the sub-parser succeeds consuming k elements from the front, span
\* succeeds with the same remaining input and the sub-parser's output paired
\* with (L, k); when the sub-parser fails, span returns that failure unchanged.
SpanCorrectness ==
    op.name = "span" =>
        LET sub == SubParser(op, recv)
            L == Base(recv).location
            k == IF op.sub = "take" THEN op.index
                 ELSE FirstMatch(Content(Base(recv).data), op.pred)
        IN  IF sub.tag = "Ok"
            THEN /\ result.tag = "Ok"
                 /\ result.remaining = sub.remaining
                 /\ result.output = <<<<L, k>>, sub.output>>
                 /\ Content(Base(sub.output).data) = Prefix(Content(Base(recv).data), k)
            ELSE /\ result.tag = sub.tag
                 /\ result = sub

SpanCorrectnessWitness ==
    /\ op.name = "span"
    /\ recv.kind = "Stateful" /\ recv.data.kind = "Stateful"
    /\ result.tag = "Ok"
    /\ result.output[1][1] > 0
    /\ result.output[1][2] > 0

\* C6: bof succeeds iff the input's location is 0, then handing back the input
\* unchanged as remaining input and as output; otherwise it returns an Error
\* (not a Failure, not Incomplete) whose input is the unchanged input.
BofCorrectness ==
    op.name = "bof" =>
        /\ result.tag \in {"Ok", "Error"}
        /\ (result.tag = "Ok") <=> (Base(recv).location = 0)
        /\ result.tag = "Ok" => result.remaining = recv /\ result.output = recv
        /\ result.tag = "Error" => result.input = recv /\ result.code = "Eof"
        /\ cur = recv

BofCorrectnessWitness ==
    /\ op.name = "bof"
    /\ recv.kind = "Stateful"
    /\ Base(recv).location > 0
    /\ result.tag = "Error"

BofSuccessWitness ==
    /\ op.name = "bof"
    /\ recv # root
    /\ result.tag = "Ok"

\* C7: a span derived from a freshly wrapped Located only by take_from(i) and
\* take_split(i) (taking the remainder) with i > 0 makes bof signal an Error.
BofAfterNonzeroStart ==
    (op.name = "bof" /\ root.kind = "Located" /\ derived = "nonzero") => result.tag = "Error"

\* C8: streaming split policy on a Located with first matching index p:
\* no match gives Incomplete(1) from both operations, p > 0 gives take_split(p)
\* from both, p = 0 gives take_split(0) from split_at_position and an Error with
\* the caller's code and the receiver as input from split_at_position1.
StreamingSplitPolicy ==
    (op.name \in {"split_at_position", "split_at_position1"} /\ recv.kind = "Located") =>
        LET s == Content(recv.data)
            p == FirstMatch(s, op.pred)
        IN  CASE p = -1 -> result.tag = "Incomplete" /\ result.needed = 1
              [] p > 0 \/ (p = 0 /\ op.name = "split_at_position") ->
                    /\ result.tag = "Ok"
                    /\ <<result.remaining, result.output>> = Located_take_split(recv, p)
                    /\ Content(result.remaining.data) = Suffix(s, p)
                    /\ result.remaining.location = recv.location + p
                    /\ Content(result.output.data) = Prefix(s, p)
                    /\ result.output.location = recv.location
              [] p = 0 /\ op.name = "split_at_position1" ->
                    /\ result.tag = "Error"
                    /\ result.code = op.kind
                    /\ result.input = recv

StreamingSplitPolicyWitness ==
    /\ op.name = "split_at_position1" /\ recv.kind = "Located"
    /\ recv.location > 0
    /\ result.tag = "Error"

StreamingSplitOkWitness ==
    /\ op.name = "split_at_position1" /\ recv.kind = "Located"
    /\ op.pred = IsDigit
    /\ Content(recv.data) = <<"a", "a", "1">>
    /\ result.tag = "Ok"

\* C9: complete split policy on a Located: never Incomplete; with no match
\* split_at_position_complete consumes everything (empty remainder at
\* location + len), and so does split_at_position1_complete unless the receiver
\* is empty, where it is an Error; a match at 0 is an Error for
\* split_at_position1_complete; a first match at n > 0 gives take_split(n).
CompleteSplitPolicy ==
    (op.name \in {"split_at_position_complete", "split_at_position1_complete"}
        /\ recv.kind = "Located") =>
        LET s == Content(recv.data)
            p == FirstMatch(s, op.pred)
            one == op.name = "split_at_position1_complete"
            n == IF p = -1 THEN Len(s) ELSE p
        IN  /\ result.tag # "Incomplete"
            /\ IF one /\ (p = 0 \/ (p = -1 /\ Len(s) = 0))
               THEN /\ result.tag = "Error"
                    /\ result.code = op.kind
                    /\ result.input = recv
               ELSE /\ result.tag = "Ok"
                    /\ <<result.remaining, result.output>> = Located_take_split(recv, n)
                    /\ Content(result.remaining.data) = Suffix(s, n)
                    /\ result.remaining.location = recv.location + n
                    /\ Content(result.output.data) = Prefix(s, n)
                    /\ result.output.location = recv.location

CompleteSplitPolicyWitness ==
    /\ op.name = "split_at_position1_complete" /\ recv.kind = "Located"
    /\ recv.data.len = 0
    /\ recv.location > 0
    /\ result.tag = "Error"

CompleteSplitAllWitness ==
    /\ op.name = "split_at_position_complete" /\ recv.kind = "Located"
    /\ FirstMatch(Content(recv.data), op.pred) = -1
    /\ recv.data.len > 1
    /\ result.tag = "Ok"

\* C10: a Stateful relays the inner outcome of the four split operations in
\* kind: Ok with the inner pair, Incomplete with the same count, Error as Error
\* and Failure as Failure with the same code and the inner error's input, every
\* span wrapped with the receiver's state.
FaithfulRelay ==
    (op.name \in SplitOps \cup {"clone_map_iresult"} /\ recv.kind = "Stateful") =>
        LET d == recv.data
            T == recv.state
            inner == CASE op.name = "split_at_position" -> Input_split_at_position(d, op.pred)
                       [] op.name = "split_at_position1" ->
                             Input_split_at_position1(d, op.pred, op.kind)
                       [] op.name = "split_at_position_complete" ->
                             Input_split_at_position_complete(d, op.pred)
                       [] op.name = "split_at_position1_complete" ->
                             Input_split_at_position1_complete(d, op.pred, op.kind)
                       [] op.name = "clone_map_iresult" -> InnerResult(op, d)
        IN  /\ result.tag = inner.tag
            /\ result.tag = "Ok" =>
                  /\ result.remaining = Stateful_new(inner.remaining, T)
                  /\ result.output = Stateful_new(inner.output, T)
            /\ result.tag = "Incomplete" => result.needed = inner.needed
            /\ result.tag \in {"Error", "Failure"} =>
                  /\ result.code = inner.code
                  /\ result.input = Stateful_new(inner.input, T)
                  /\ Base(result.input).location = Base(inner.input).location

FaithfulRelayWitness ==
    /\ op.name = "clone_map_iresult" /\ recv.kind = "Stateful"
    /\ result.tag = "Failure"
    /\ recv.state = "s2"
    /\ Base(recv).location > 0

FaithfulRelayErrorWitness ==
    /\ op.name \in SplitOps /\ recv.kind = "Stateful"
    /\ result.tag = "Error"
    /\ Base(recv).location > 0

====
